---- MODULE Spec2Model ----
(***************************************************************************)
(* LDraw2Print, src/export_cli.py: the command-line converter that, inside *)
(* a Blender session, optionally renders a step-by-step build manual and   *)
(* then exports every mesh object to a colour-bucketed .obj file.          *)
(*                                                                         *)
(* Text is modelled as a tuple of one-character strings, so that strip,    *)
(* startswith, re.sub and the f-string that builds file names are computed *)
(* character by character.  A line of the input file is its text without   *)
(* the line terminator.                                                    *)
(***************************************************************************)
EXTENDS Integers, Sequences, FiniteSets, TLC

\* ------------------------------------------------------------------ bounds
MaxLines == 4        \* lines of an input file drawn for the parser
MaxSteps == 3        \* steps of a generated input file (manual phase)
MaxStepSize == 3     \* part lines per step of a generated input file
MaxManualObjs == 7   \* mesh objects the manual-phase import may yield
MaxObjs == 2         \* mesh objects the export-phase import may yield
MaxRuns == 2         \* invocations of the script on one output root
MaxNameLen == 4      \* characters of a material name drawn for the bucket key

\* ------------------------------------------------------------ text helpers
Whitespace == {" "}
Digits == {"0", "1", "2", "3", "4", "5", "6", "7", "8", "9"}

StartsWith(s, p) ==
  /\ Len(s) >= Len(p)
  /\ \A i \in 1..Len(p) : s[i] = p[i]

EndsWith(s, p) ==
  /\ Len(s) >= Len(p)
  /\ \A i \in 1..Len(p) : s[Len(s) - Len(p) + i] = p[i]

RECURSIVE lstrip(_)
lstrip(s) ==
  IF s # <<>> /\ Head(s) \in Whitespace THEN lstrip(Tail(s)) ELSE s

RECURSIVE rstrip(_)
rstrip(s) ==
  IF s # <<>> /\ s[Len(s)] \in Whitespace
  THEN rstrip(SubSeq(s, 1, Len(s) - 1)) ELSE s

\* str.strip()
strip(s) == rstrip(lstrip(s))

DigitChar(d) ==
  CASE d = 0 -> "0" [] d = 1 -> "1" [] d = 2 -> "2" [] d = 3 -> "3"
    [] d = 4 -> "4" [] d = 5 -> "5" [] d = 6 -> "6" [] d = 7 -> "7"
    [] d = 8 -> "8" [] d = 9 -> "9"

\* str(n) for a natural number n, as the f-string formats dup_c
RECURSIVE IntToStr(_)
IntToStr(n) ==
  IF n < 10 THEN <<DigitChar(n)>>
  ELSE IntToStr(n \div 10) \o <<DigitChar(n % 10)>>

\* --------------------------------------------------- parse_ldraw_steps
STEP_PREFIX == <<"0", " ", "S", "T", "E", "P">>
ROTSTEP_PREFIX == <<"0", " ", "R", "O", "T", "S", "T", "E", "P">>

\* the body of `for line in f` and the flush after it
RECURSIVE ParseLoop(_, _, _, _)
ParseLoop(ls, i, steps, current_step) ==
  IF i > Len(ls)
  THEN IF current_step # <<>> THEN Append(steps, current_step) ELSE steps
  ELSE LET line == strip(ls[i]) IN
       IF StartsWith(line, STEP_PREFIX) \/ StartsWith(line, ROTSTEP_PREFIX)
       THEN IF current_step # <<>>
            THEN ParseLoop(ls, i + 1, Append(steps, current_step), <<>>)
            ELSE ParseLoop(ls, i + 1, steps, current_step)
       ELSE IF line # <<>> /\ line[1] = "1"
            THEN ParseLoop(ls, i + 1, steps, Append(current_step, line))
            ELSE ParseLoop(ls, i + 1, steps, current_step)

\* mutant: the flush after the loop is forgotten
RECURSIVE ParseLoopNoFinalFlush(_, _, _, _)
ParseLoopNoFinalFlush(ls, i, steps, current_step) ==
  IF i > Len(ls)
  THEN steps
  ELSE LET line == strip(ls[i]) IN
       IF StartsWith(line, STEP_PREFIX) \/ StartsWith(line, ROTSTEP_PREFIX)
       THEN IF current_step # <<>>
            THEN ParseLoopNoFinalFlush(ls, i + 1, Append(steps, current_step), <<>>)
            ELSE ParseLoopNoFinalFlush(ls, i + 1, steps, current_step)
       ELSE IF line # <<>> /\ line[1] = "1"
            THEN ParseLoopNoFinalFlush(ls, i + 1, steps, Append(current_step, line))
            ELSE ParseLoopNoFinalFlush(ls, i + 1, steps, current_step)

parse_ldraw_steps_noflush(readable, ls) ==
  IF ~readable THEN <<>> ELSE ParseLoopNoFinalFlush(ls, 1, <<>>, <<>>)

\* readable = FALSE: open() raises, the except clause returns []
parse_ldraw_steps(readable, ls) ==
  IF ~readable THEN <<>> ELSE ParseLoop(ls, 1, <<>>, <<>>)

\* ------------------------------------------------------ input file lines
LinePartA == <<"1", " ", "a">>
LinePartB == <<"1", " ", "b">>
LinePartIndented == <<" ", "1", " ", "c">>
LineStep == <<"0", " ", "S", "T", "E", "P">>
LineRotStep == <<"0", " ", "R", "O", "T", "S", "T", "E", "P", " ", "9">>
LineComment == <<"0", " ", "x">>
LineOther == <<"2", " ", "y">>
LineBlank == <<>>

RawLines == {LinePartA, LinePartB, LinePartIndented, LineStep, LineRotStep,
             LineComment, LineOther, LineBlank}

RECURSIVE SeqsUpTo(_, _)
SeqsUpTo(S, n) ==
  IF n = 0 THEN {<<>>}
  ELSE LET shorter == SeqsUpTo(S, n - 1) IN
       shorter \cup {Append(s, x) : s \in {t \in shorter : Len(t) = n - 1}, x \in S}


\* ------------------------------------------- names, buckets, output paths
\* the character class of clean_string: \ / * ? : " < > |
ReservedChars == {"\\", "/", "*", "?", ":", "\"", "<", ">", "|"}

\* re.sub(r'[\\/*?:":<>|]', "_", text)
clean_string(text) ==
  [i \in DOMAIN text |-> IF text[i] \in ReservedChars THEN "_" ELSE text[i]]

RECURSIVE TrailingDigits(_)
TrailingDigits(s) ==
  IF s # <<>> /\ s[Len(s)] \in Digits
  THEN 1 + TrailingDigits(SubSeq(s, 1, Len(s) - 1)) ELSE 0

\* re.sub(r'\.\d+$', '', name): a dot followed by digits up to the end
StripDuplicateIndex(name) ==
  LET k == TrailingDigits(name) IN
  IF k >= 1 /\ Len(name) > k /\ name[Len(name) - k] = "."
  THEN SubSeq(name, 1, Len(name) - k - 1) ELSE name

VARIANT_SUFFIX == <<"_", "s">>

\* mutant: the name is only sanitized, no suffix is stripped
normalize_material_name_cleanonly(name) == clean_string(name)

normalize_material_name(name) ==
  LET n1 == IF EndsWith(name, VARIANT_SUFFIX)
            THEN SubSeq(name, 1, Len(name) - 2) ELSE name
  IN clean_string(StripDuplicateIndex(n1))

UNCOLORED == <<"U", "n", "c", "o", "l", "o", "r", "e", "d">>
OBJ_EXT == <<".", "o", "b", "j">>

\* lines 532-535: the bucket key of an object
BucketOf(obj) ==
  IF obj.has_material THEN normalize_material_name(obj.material) ELSE UNCOLORED

\* os.path.join(color_folder, f"{clean_name}.obj")
ObjPath(color_folder, clean_name) == <<color_folder, clean_name \o OBJ_EXT>>

\* lines 568-574: the while loop over os.path.exists(final_path)
RECURSIVE ResolveLoop(_, _, _, _, _)
ResolveLoop(existing, color_folder, base_name, clean_name, dup_c) ==
  IF ObjPath(color_folder, clean_name) \in existing
  THEN ResolveLoop(existing, color_folder, base_name,
                   base_name \o <<"_">> \o IntToStr(dup_c), dup_c + 1)
  ELSE [clean_name |-> clean_name,
        final_path |-> ObjPath(color_folder, clean_name),
        suffix |-> dup_c - 1]

\* mutant: `if` instead of `while`, the suffixed path is not looked up again
ResolvePathCheckOnce(existing, color_folder, base_name) ==
  IF ObjPath(color_folder, base_name) \in existing
  THEN [clean_name |-> base_name \o <<"_">> \o IntToStr(1),
        final_path |-> ObjPath(color_folder, base_name \o <<"_">> \o IntToStr(1)),
        suffix |-> 1]
  ELSE [clean_name |-> base_name,
        final_path |-> ObjPath(color_folder, base_name),
        suffix |-> 0]

\* mutant: the path is taken without looking for an existing file
ResolvePathNoLoop(existing, color_folder, base_name) ==
  [clean_name |-> base_name,
   final_path |-> ObjPath(color_folder, base_name),
   suffix |-> 0]

ResolvePath(existing, color_folder, base_name) ==
  ResolveLoop(existing, color_folder, base_name, base_name, 1)

\* ------------------------------------------------------------ the inputs
NoInput == [given |-> FALSE, ext |-> ""]
InputFiles == {[given |-> TRUE, ext |-> e] : e \in {".ldr", ".MPD", ".obj", ".stl"}}

\* os.path.splitext(input_file)[1].lower()
LowerExt(f) ==
  CASE f.ext = ".MPD" -> ".mpd"
    [] OTHER -> f.ext

LDRAW_EXTS == {".ldr", ".mpd", ".dat"}

\* the mesh objects a model file can hold (object names are unique in a scene)
ObjectKinds ==
  { [name |-> <<"A", "_", "B">>, has_material |-> TRUE,
     material |-> <<"R">>, vertices |-> 8],
    [name |-> <<"A", ":", "B">>, has_material |-> TRUE,
     material |-> <<"R", "_", "s">>, vertices |-> 8],
    [name |-> <<"A", "_", "B", "_", "1">>, has_material |-> TRUE,
     material |-> <<"R", ".", "1">>, vertices |-> 8],
    [name |-> <<"A", "/", "B">>, has_material |-> FALSE,
     material |-> <<>>, vertices |-> 8],
    [name |-> <<"C">>, has_material |-> TRUE,
     material |-> <<"R">>, vertices |-> 2] }

ObjectLists ==
  {s \in SeqsUpTo(ObjectKinds, MaxObjs) :
     \A i, j \in DOMAIN s : i # j => s[i].name # s[j].name}

\* an input file with the given step sizes: part lines, STEP between steps
RECURSIVE FileOfSizes(_)
FileOfSizes(sizes) ==
  IF sizes = <<>> THEN <<>>
  ELSE LET parts == [k \in 1..Head(sizes) |-> LinePartA] IN
       IF Len(sizes) = 1 THEN parts
       ELSE parts \o <<LineStep>> \o FileOfSizes(Tail(sizes))

GeneratedFiles == {FileOfSizes(z) : z \in SeqsUpTo(1..MaxStepSize, MaxSteps)}

SampleFiles == {FileOfSizes(<<>>), FileOfSizes(<<1, 1>>)}

\* ------------------------------------------------------------- the state
VARIABLES
  pc,                    \* position of the script
  run,                   \* number of the current invocation
  input_file,            \* args[0], or NoInput
  generate_instructions, \* args[2].lower() == "true"
  file_exists,           \* the input path names a readable file
  lines,                 \* the text of the input file
  model_objs,            \* the mesh objects the engine makes of the file
  exit_status,           \* -1 while running, then the argument of sys.exit
  root_exists,           \* output_dir exists
  created,               \* what this invocation wrote under output_dir
  instr_dirs,            \* output_dir/instructions/renders exists
  png_files,             \* step numbers n with a renders/step_<n>.png
  html_exists,           \* the manual document exists
  html_pages,            \* the pages of the manual document
  ldraw_steps,           \* generate_instructions_pdf: local
  all_objects,           \* generate_instructions_pdf: local
  rendered_steps,        \* generate_instructions_pdf: local
  cumulative_objects,    \* generate_instructions_pdf: local
  step_idx,              \* generate_instructions_pdf: loop variable
  calls,                 \* the render_step calls made so far, in order
  objects_to_process,    \* export phase: the imported mesh objects
  obj_i,                 \* export loop: index of the next object
  count,                 \* export loop: number of exported files
  modifiers,             \* per object, the transient modifiers it carries
  bucket_dirs,           \* the bucket directories under output_dir
  obj_files,             \* the mesh files on disk: [path, obj, run]
  exported,              \* the export records of this invocation
  failed,                \* objects whose iteration raised
  mode,                  \* engine: OBJECT or EDIT
  selected,              \* engine: the selected objects
  active,                \* engine: the active object, 0 for none
  op_log,                \* the engine calls of the latest loop iteration
  pre_files,             \* the mesh file paths present when the run began
  prev_exported          \* the export records of the previous invocation

vars == <<pc, run, input_file, generate_instructions, file_exists, lines,
          model_objs, exit_status, root_exists, created, instr_dirs,
          png_files, html_exists, html_pages, ldraw_steps, all_objects,
          rendered_steps, cumulative_objects, step_idx, calls,
          objects_to_process, obj_i, count, modifiers, bucket_dirs,
          obj_files, exported, failed, mode, selected, active, op_log,
          pre_files,
          prev_exported>>

inputVars == <<input_file, generate_instructions, file_exists, lines, model_objs>>
manualLocals == <<ldraw_steps, all_objects, rendered_steps, cumulative_objects,
                  step_idx, calls>>
manualFiles == <<instr_dirs, png_files, html_exists, html_pages>>
exportVars == <<objects_to_process, obj_i, count, modifiers, bucket_dirs,
                obj_files, exported, failed>>
engineVars == <<mode, selected, active, op_log>>
runVars == <<run, pre_files, prev_exported>>

\* the state of a fresh process on an empty output location
FreshState ==
  /\ run = 1
  /\ exit_status = -1
  /\ root_exists = FALSE
  /\ created = {}
  /\ instr_dirs = FALSE
  /\ png_files = {}
  /\ html_exists = FALSE
  /\ html_pages = <<>>
  /\ ldraw_steps = <<>>
  /\ all_objects = <<>>
  /\ rendered_steps = <<>>
  /\ cumulative_objects = <<>>
  /\ step_idx = 0
  /\ calls = <<>>
  /\ objects_to_process = <<>>
  /\ obj_i = 0
  /\ count = 0
  /\ modifiers = <<>>
  /\ bucket_dirs = {}
  /\ obj_files = {}
  /\ exported = {}
  /\ failed = {}
  /\ mode = "OBJECT"
  /\ selected = {}
  /\ active = 0
  /\ op_log = {}
  /\ pre_files = {}
  /\ prev_exported = {}

\* ----------------------------------------------------------- 1. setup
\* lines 26-31: no input file is fatal; otherwise output_dir is created
Setup ==
  /\ pc = "setup"
  /\ IF ~input_file.given
     THEN /\ pc' = "done"
          /\ exit_status' = 1
          /\ UNCHANGED <<root_exists, created>>
     ELSE /\ root_exists' = TRUE
          /\ created' = IF root_exists THEN created ELSE created \cup {"output_dir"}
          /\ pc' = IF generate_instructions THEN "gen_start" ELSE "import"
          /\ UNCHANGED exit_status
  /\ UNCHANGED <<inputVars, manualLocals, manualFiles, exportVars, engineVars, runVars>>

\* ---------------------------------------------- 2. the manual phase
ALL_MARK == <<"a", "l", "l">>

\* lines 82-84: no parsed step is replaced by the single step ["all"]
FallbackSteps(parsed) ==
  IF parsed = <<>> THEN <<<<ALL_MARK>>>> ELSE parsed

\* line 116
IsSingleAll(steps) == Len(steps) = 1 /\ steps[1] = <<ALL_MARK>>

Range1(n) == [k \in 1..n |-> k]

\* lines 69-110: extension check, parse, directories, import, scene setup.
\* fail names the engine call that raises; every raise lands in the except
\* clause of line 156 and the function returns.
GenStart ==
  /\ pc = "gen_start"
  /\ IF LowerExt(input_file) \notin LDRAW_EXTS
     THEN /\ pc' = "gen_return"
          /\ UNCHANGED <<manualLocals, manualFiles, created>>
     ELSE \E fail \in {"none", "import", "scene"}, n \in 0..MaxManualObjs :
          /\ fail = "none" \/ n = 0
          /\ fail = "import" \/ file_exists
          /\ ldraw_steps' = FallbackSteps(parse_ldraw_steps(file_exists, lines))
          /\ instr_dirs' = TRUE
          /\ created' = IF instr_dirs THEN created
                        ELSE created \cup {"instructions_dir"}
          /\ all_objects' = IF fail = "none" THEN Range1(n) ELSE <<>>
          /\ step_idx' = 1
          /\ pc' = IF fail = "none" THEN "gen_render" ELSE "gen_return"
          /\ UNCHANGED <<rendered_steps, cumulative_objects, calls,
                         png_files, html_exists, html_pages>>
  /\ UNCHANGED <<inputVars, exit_status, root_exists, exportVars, engineVars, runVars>>

\* the outcomes of one render_step call: the image was written, no image
\* (render raised inside render_step, or the file is missing), or a raise
\* outside render_step's own try block
RenderOutcomes == {"ok", "none", "raise"}

\* mutant: the running list of the other branch is shown, which is empty here
SingleStepVisibleCumulative(all, cumulative) == cumulative

\* line 119: the objects shown by the single step
SingleStepVisible(all, cumulative) == all

\* lines 116-125: the single step ["all"]
RenderSingle ==
  /\ pc = "gen_render"
  /\ IsSingleAll(ldraw_steps)
  /\ \E r \in RenderOutcomes :
       /\ calls' = Append(calls, [step_num |-> 1,
                                  visible |-> SingleStepVisible(all_objects, cumulative_objects),
                                  new_objects |-> <<>>])
       /\ png_files' = IF r = "ok" THEN png_files \cup {1} ELSE png_files
       /\ created' = IF r = "ok" THEN created \cup {"render"} ELSE created
       /\ rendered_steps' =
            IF r = "ok"
            THEN Append(rendered_steps, [step_num |-> 1, image |-> 1,
                                         new_parts |-> Len(all_objects)])
            ELSE rendered_steps
       /\ pc' = IF r = "raise" THEN "gen_return" ELSE "gen_write"
  /\ UNCHANGED <<inputVars, exit_status, root_exists, ldraw_steps, all_objects,
                 cumulative_objects, step_idx, instr_dirs, html_exists,
                 html_pages, exportVars, engineVars, runVars>>

\* line 128
ObjectsPerStep(nobjs, nsteps) == nobjs \div nsteps

\* line 132
StartIdx(idx, per_step) == (idx - 1) * per_step

\* line 133
EndIdx(idx, nsteps, per_step, nobjs) ==
  IF idx < nsteps THEN StartIdx(idx, per_step) + per_step ELSE nobjs

\* all_objects[start:end] for 0 <= start, end
Slice(seq, start, end) ==
  IF end <= start \/ start >= Len(seq) THEN <<>>
  ELSE SubSeq(seq, start + 1, IF end > Len(seq) THEN Len(seq) ELSE end)

\* lines 130-146: one iteration of the loop over the parsed steps
RenderStep ==
  /\ pc = "gen_render"
  /\ ~IsSingleAll(ldraw_steps)
  /\ step_idx <= Len(ldraw_steps)
  /\ LET per_step == ObjectsPerStep(Len(all_objects), Len(ldraw_steps))
         new_objects == Slice(all_objects, StartIdx(step_idx, per_step),
                              EndIdx(step_idx, Len(ldraw_steps), per_step,
                                     Len(all_objects)))
         cumulative == cumulative_objects \o new_objects
     IN \E r \in RenderOutcomes :
          /\ cumulative_objects' = cumulative
          /\ calls' = Append(calls, [step_num |-> step_idx,
                                     visible |-> cumulative,
                                     new_objects |-> new_objects])
          /\ png_files' = IF r = "ok" THEN png_files \cup {step_idx} ELSE png_files
          /\ created' = IF r = "ok" THEN created \cup {"render"} ELSE created
          /\ rendered_steps' =
               IF r = "ok"
               THEN Append(rendered_steps, [step_num |-> step_idx,
                                            image |-> step_idx,
                                            new_parts |-> Len(new_objects)])
               ELSE rendered_steps
          /\ step_idx' = step_idx + 1
          /\ pc' = IF r = "raise" THEN "gen_return"
                   ELSE IF step_idx = Len(ldraw_steps) THEN "gen_write"
                   ELSE "gen_render"
  /\ UNCHANGED <<inputVars, exit_status, root_exists, ldraw_steps, all_objects,
                 instr_dirs, html_exists, html_pages, exportVars, engineVars,
                 runVars>>

\* lines 414-441: one page per entry, captioned "Step <step_num> of <len(steps)>"
create_lego_style_instructions(steps) ==
  [k \in 1..Len(steps) |-> [step_num |-> steps[k].step_num,
                            new_parts |-> steps[k].new_parts,
                            of |-> Len(steps)]]

\* mutant: a raise while the document is written is not caught and ends the
\* process
GenWriteUncaught ==
  /\ pc = "gen_write"
  /\ \E w \in {"ok", "raise"} :
       /\ w = "ok" \/ rendered_steps # <<>>
       /\ IF rendered_steps # <<>> /\ w = "ok"
          THEN /\ html_exists' = TRUE
               /\ html_pages' = create_lego_style_instructions(rendered_steps)
               /\ created' = created \cup {"manual"}
          ELSE UNCHANGED <<html_exists, html_pages, created>>
       /\ pc' = IF w = "raise" THEN "done" ELSE "gen_return"
       /\ exit_status' = IF w = "raise" THEN 1 ELSE exit_status
  /\ UNCHANGED <<inputVars, root_exists, manualLocals, instr_dirs,
                 png_files, exportVars, engineVars, runVars>>

\* lines 148-154: the document is written when at least one step rendered;
\* a raise while writing it is caught at line 156
GenWrite ==
  /\ pc = "gen_write"
  /\ \E w \in {"ok", "raise"} :
       /\ w = "ok" \/ rendered_steps # <<>>
       /\ IF rendered_steps # <<>> /\ w = "ok"
          THEN /\ html_exists' = TRUE
               /\ html_pages' = create_lego_style_instructions(rendered_steps)
               /\ created' = created \cup {"manual"}
          ELSE UNCHANGED <<html_exists, html_pages, created>>
  /\ pc' = "gen_return"
  /\ UNCHANGED <<inputVars, exit_status, root_exists, manualLocals, instr_dirs,
                 png_files, exportVars, engineVars, runVars>>

\* lines 459-460: the call returns, its locals are gone
GenReturn ==
  /\ pc = "gen_return"
  /\ pc' = "import"
  /\ ldraw_steps' = <<>>
  /\ all_objects' = <<>>
  /\ rendered_steps' = <<>>
  /\ cumulative_objects' = <<>>
  /\ step_idx' = 0
  /\ calls' = <<>>
  /\ UNCHANGED <<inputVars, exit_status, root_exists, created, manualFiles,
                 exportVars, engineVars, runVars>>

\* -------------------------------------------- 3. import for 3D export
Indices(seq) == 1..Len(seq)

\* lines 463-506.  o is what the engine does: "addon_fail" is the
\* sys.exit(1) of line 477, "import_fail" the except clause of line 504.
\* An extension that is neither LDraw nor .obj takes no branch at all.
Import ==
  /\ pc = "import"
  /\ LET ext == LowerExt(input_file) IN
     \E o \in {"ok", "addon_fail", "import_fail"} :
       /\ o = "addon_fail" => ext \in LDRAW_EXTS
       /\ o = "import_fail" => ext \in LDRAW_EXTS \cup {".obj"}
       /\ (ext \in LDRAW_EXTS \cup {".obj"} /\ ~file_exists) => o # "ok"
       /\ IF o = "ok"
          THEN /\ objects_to_process' =
                    IF ext \in LDRAW_EXTS \cup {".obj"} THEN model_objs ELSE <<>>
               /\ selected' = IF ext = ".obj" THEN Indices(model_objs) ELSE {}
               /\ pc' = "loop"
               /\ UNCHANGED exit_status
          ELSE /\ pc' = "done"
               /\ exit_status' = 1
               /\ selected' = {}
               /\ UNCHANGED objects_to_process
  /\ obj_i' = 1
  /\ modifiers' = [k \in Indices(objects_to_process') |-> {}]
  /\ mode' = "OBJECT"
  /\ active' = 0
  /\ op_log' = {}
  /\ UNCHANGED <<inputVars, root_exists, created, manualLocals, manualFiles,
                 count, bucket_dirs, obj_files, exported, failed, runVars>>

\* ------------------------------------------------------ 4. export loop
\* the call of one iteration that raises ("none": no call raises)
FailPoints == {"none", "folder", "isolate", "weld", "mod_tri", "mod_tol",
               "update", "export"}

\* position of a call in the iteration, lines 531-596
Stage(fp) ==
  CASE fp = "folder" -> 1 [] fp = "isolate" -> 2 [] fp = "weld" -> 3
    [] fp = "mod_tri" -> 4 [] fp = "mod_tol" -> 5 [] fp = "update" -> 6
    [] fp = "export" -> 7 [] fp = "none" -> 8

\* lines 555-596: the transient modifiers on the object when the iteration
\* ends; lines 595-596 remove them after a successful export only
ModifiersAtEnd(fp) ==
  IF Stage(fp) <= 4 THEN {}
  ELSE IF Stage(fp) = 5 THEN {"AutoTriangulate"}
  ELSE IF Stage(fp) <= 7 THEN {"AutoTriangulate", "ToleranceShrink"}
  ELSE {}

\* mutant: a failed iteration ends the loop
AfterFailureBreak(i, n) == n + 1

\* lines 601-602: the except clause logs and the for loop goes on
AfterFailure(i, n) == i + 1

FilePaths(files) == {f.path : f \in files}

\* the engine writes the file at path, replacing a file already there
WriteFile(files, path, i, r) ==
  {f \in files : f.path # path} \cup {[path |-> path, obj |-> i, run |-> r]}

\* mutant: the selection of the previous iteration (or of the import) is kept
DeselectAllKeeps(sel) == sel

\* line 542: bpy.ops.object.select_all(action='DESELECT')
DeselectAll(sel) == {}

\* line 545: obj.select_set(True)
SelectSet(sel, i) == sel \cup {i}

\* the geometry and export calls an iteration issues, in order, with the
\* position of each: a call is issued when every call before it returned
IssuedCalls == <<[op |-> "weld", stage |-> 3],
                 [op |-> "modifier_tri", stage |-> 4],
                 [op |-> "modifier_tol", stage |-> 5],
                 [op |-> "export", stage |-> 7]>>

\* lines 525-602: one iteration of `for obj in objects_to_process`
ExportObject ==
  /\ pc = "loop"
  /\ obj_i <= Len(objects_to_process)
  /\ LET obj == objects_to_process[obj_i]
         n == Len(objects_to_process)
     IN IF obj.vertices < 3
        THEN /\ obj_i' = obj_i + 1
             /\ UNCHANGED <<count, modifiers, bucket_dirs, obj_files, exported,
                            failed, engineVars, created>>
        ELSE \E fp \in FailPoints :
             LET mat_name == BucketOf(obj)
                 res == ResolvePath(FilePaths(obj_files), mat_name,
                                    clean_string(obj.name))
             IN /\ bucket_dirs' = IF Stage(fp) > 1 THEN bucket_dirs \cup {mat_name}
                                  ELSE bucket_dirs
                /\ selected' = IF Stage(fp) > 2
                               THEN SelectSet(DeselectAll(selected), obj_i)
                               ELSE selected
                /\ active' = IF Stage(fp) > 2 THEN obj_i ELSE active
                /\ op_log' = {[op |-> IssuedCalls[k].op, obj |-> obj_i,
                               selected |-> selected', active |-> active',
                               mode_at_entry |-> mode] :
                                 k \in {j \in DOMAIN IssuedCalls :
                                          IssuedCalls[j].stage <= Stage(fp)}}
                /\ mode' = IF Stage(fp) = 3 THEN "EDIT"
                           ELSE IF Stage(fp) > 3 THEN "OBJECT" ELSE mode
                /\ modifiers' = [modifiers EXCEPT ![obj_i] = ModifiersAtEnd(fp)]
                /\ IF fp = "none"
                   THEN /\ obj_files' = WriteFile(obj_files, res.final_path, obj_i, run)
                        /\ exported' = exported \cup
                             {[obj |-> obj_i, path |-> res.final_path,
                               base |-> clean_string(obj.name),
                               suffix |-> res.suffix]}
                        /\ count' = count + 1
                        /\ obj_i' = obj_i + 1
                        /\ UNCHANGED failed
                   ELSE /\ failed' = failed \cup {obj_i}
                        /\ obj_i' = AfterFailure(obj_i, n)
                        /\ UNCHANGED <<obj_files, exported, count>>
                /\ created' = created
                     \cup (IF Stage(fp) > 1 /\ mat_name \notin bucket_dirs
                           THEN {"bucket_dir"} ELSE {})
                     \cup (IF fp = "none" THEN {"mesh"} ELSE {})
  /\ UNCHANGED <<pc, inputVars, exit_status, root_exists, manualLocals,
                 manualFiles, objects_to_process, runVars>>

\* lines 604-613: the summary and sys.exit(0)
Finish ==
  /\ pc = "loop"
  /\ obj_i > Len(objects_to_process)
  /\ pc' = "done"
  /\ exit_status' = 0
  /\ UNCHANGED <<inputVars, root_exists, created, manualLocals, manualFiles,
                 exportVars, engineVars, runVars>>

\* the script is started again with the same arguments on the same output
\* location: a new process and a new engine session, the files remain
Restart ==
  /\ pc = "done"
  /\ run < MaxRuns
  /\ run' = run + 1
  /\ pc' = "setup"
  /\ exit_status' = -1
  /\ created' = {}
  /\ pre_files' = FilePaths(obj_files)
  /\ prev_exported' = exported
  /\ objects_to_process' = <<>>
  /\ obj_i' = 0
  /\ count' = 0
  /\ modifiers' = <<>>
  /\ exported' = {}
  /\ failed' = {}
  /\ mode' = "OBJECT"
  /\ selected' = {}
  /\ active' = 0
  /\ op_log' = {}
  /\ UNCHANGED <<inputVars, root_exists, manualLocals, manualFiles,
                 bucket_dirs, obj_files>>

\* a call of parse_ldraw_steps on the input file
ParseFile ==
  /\ pc = "parse"
  /\ ldraw_steps' = parse_ldraw_steps(file_exists, lines)
  /\ pc' = "parsed"
  /\ UNCHANGED <<inputVars, exit_status, root_exists, created, all_objects,
                 rendered_steps, cumulative_objects, step_idx, calls,
                 manualFiles, exportVars, engineVars, runVars>>

\* ------------------------------------------------------ specifications
\* the whole script, from the command line to sys.exit
Init ==
  /\ pc = "setup"
  /\ FreshState
  /\ generate_instructions \in BOOLEAN
  /\ input_file \in InputFiles \cup {NoInput}
  /\ file_exists \in BOOLEAN
  /\ lines \in SampleFiles
  /\ model_objs \in ObjectLists
  /\ ~input_file.given => ~file_exists
  /\ ~file_exists => lines = <<>> /\ model_objs = <<>>
  /\ LowerExt(input_file) \notin LDRAW_EXTS => lines = <<>>

Next ==
  \/ Setup
  \/ GenStart
  \/ RenderSingle
  \/ RenderStep
  \/ GenWrite
  \/ GenReturn
  \/ Import
  \/ ExportObject
  \/ Finish

Spec == Init /\ [][Next]_vars

\* the script without the manual flag, started up to MaxRuns times on the
\* same input and the same output location
InitRerun == Init /\ ~generate_instructions

NextRerun ==
  \/ Setup
  \/ Import
  \/ ExportObject
  \/ Finish
  \/ Restart

SpecRerun == InitRerun /\ [][NextRerun]_vars

\* parse_ldraw_steps on every input file of up to MaxLines lines
InitParse ==
  /\ pc = "parse"
  /\ FreshState
  /\ generate_instructions = TRUE
  /\ input_file = [given |-> TRUE, ext |-> ".ldr"]
  /\ file_exists \in BOOLEAN
  /\ lines \in SeqsUpTo(RawLines, MaxLines)
  /\ model_objs = <<>>

NextParse == ParseFile

SpecParse == InitParse /\ [][NextParse]_vars

\* generate_instructions_pdf on input files of every step structure
InitManual ==
  /\ pc = "gen_start"
  /\ FreshState
  /\ generate_instructions = TRUE
  /\ input_file \in InputFiles
  /\ file_exists \in BOOLEAN
  /\ lines \in GeneratedFiles
  /\ model_objs = <<>>
  /\ LowerExt(input_file) \notin LDRAW_EXTS => lines = <<>> /\ file_exists

NextManual ==
  \/ GenStart
  \/ RenderSingle
  \/ RenderStep
  \/ GenWrite
  \/ GenReturn

SpecManual == InitManual /\ [][NextManual]_vars

\* the same with the script running on: a step that can be taken is taken
SpecManualFair == SpecManual /\ WF_vars(NextManual)

\* ------------------------------------------------------------ properties
AllEligible ==
  \A i \in Indices(objects_to_process) : objects_to_process[i].vertices >= 3

\* C1: when every object has at least 3 vertices and the iteration of exactly
\* one of them raised, the loop has gone through the whole list, count is
\* N-1, every other object has its own file written in this run, and the
\* exit status is 0.
C1_PartialFailureIsolation ==
  (pc = "done" /\ AllEligible /\ Cardinality(failed) = 1) =>
     /\ obj_i = Len(objects_to_process) + 1
     /\ count = Len(objects_to_process) - 1
     /\ \A i \in Indices(objects_to_process) \ failed :
          \E e \in exported :
             /\ e.obj = i
             /\ [path |-> e.path, obj |-> i, run |-> run] \in obj_files
     /\ Cardinality({e.path : e \in exported}) = Len(objects_to_process) - 1
     /\ exit_status = 0

\* the first of two objects failed, the second was exported, exit status 0
C1_Witness ==
  /\ pc = "done"
  /\ AllEligible
  /\ Len(objects_to_process) = 2
  /\ failed = {1}
  /\ count = 1
  /\ exit_status = 0

\* C2: an object the loop has processed carries no transient modifier,
\* whether its iteration succeeded or raised.
C2_NoModifierResidue ==
  \A i \in Indices(objects_to_process) :
     ((pc = "loop" /\ i < obj_i) \/ pc = "done") => modifiers[i] = {}

\* the k-th candidate file name of the collision loop
Candidate(color_folder, base_name, k) ==
  ObjPath(color_folder,
          IF k = 0 THEN base_name ELSE base_name \o <<"_">> \o IntToStr(k))

\* C3 as stated: the exported objects of one run that share a sanitized name
\* and a bucket get <name>.obj, <name>_1.obj, <name>_2.obj, ... in list order.
C3_SuffixCountsEarlierExports ==
  \A e \in exported :
     e.suffix = Cardinality({d \in exported : /\ d.obj < e.obj
                                              /\ d.base = e.base
                                              /\ d.path[1] = e.path[1]})

\* C3 amended: an export never replaces or removes a file, and its path is
\* the first one of <name>.obj, <name>_1.obj, <name>_2.obj, ... that no file
\* occupied when the object was exported.
C3_FirstFreePath ==
  [][ /\ \A f \in obj_files : f \in obj_files'
      /\ \A e \in exported' \ exported :
           LET obj == objects_to_process[e.obj] IN
           /\ e.path \notin FilePaths(obj_files)
           /\ e.path = Candidate(BucketOf(obj), clean_string(obj.name), e.suffix)
           /\ \A k \in 0..(e.suffix - 1) :
                Candidate(BucketOf(obj), clean_string(obj.name), k)
                   \in FilePaths(obj_files)
    ]_vars

\* two objects of one run with the same sanitized name in one bucket got
\* <name>.obj and <name>_1.obj
C3_Witness ==
  \E d, e \in exported :
     /\ d.obj < e.obj
     /\ objects_to_process[d.obj].name # objects_to_process[e.obj].name
     /\ d.base = e.base
     /\ d.path[1] = e.path[1]
     /\ d.suffix = 0
     /\ e.suffix = 1

\* the lines of the input format, by kind
MarkerLines == {LineStep, LineRotStep}
PartLines == {LinePartA, LinePartB, LinePartIndented}

PartPositions(ls) == {i \in 1..Len(ls) : ls[i] \in PartLines}
MarkersBefore(ls, i) == Cardinality({j \in 1..i : ls[j] \in MarkerLines})

\* the text a returned step holds for an input line
Verbatim(line) == line
Trimmed(line) == strip(line)

\* the steps the marker positions imply: one step per marker-delimited
\* segment that holds a part line, in source order, Text(line) per part line
ImpliedSteps(ls, Text(_)) ==
  LET segs == {MarkersBefore(ls, i) : i \in PartPositions(ls)}
      nth(s) == CHOOSE g \in segs : Cardinality({h \in segs : h < g}) = s - 1
      positions(s) == SelectSeq([k \in 1..Len(ls) |-> k],
                                LAMBDA k : /\ k \in PartPositions(ls)
                                           /\ MarkersBefore(ls, k) = nth(s))
  IN [s \in 1..Cardinality(segs) |->
        [k \in 1..Len(positions(s)) |-> Text(ls[positions(s)[k]])]]

RECURSIVE SumLen(_)
SumLen(steps) == IF steps = <<>> THEN 0 ELSE Len(Head(steps)) + SumLen(Tail(steps))

Min(a, b) == IF a < b THEN a ELSE b

RECURSIVE SumFirst(_, _)
SumFirst(steps, k) == IF k = 0 THEN 0 ELSE Len(steps[k]) + SumFirst(steps, k - 1)

\* C5: with more than one step, step i gets the next c_i objects of the
\* imported list, c_i being the number of part lines of step i, and the last
\* step gets all that remain.
C5_StepTakesDeclaredCount ==
  (pc \in {"gen_render", "gen_write"} /\ Len(ldraw_steps) > 1) =>
     \A i \in 1..Len(calls) :
        LET n == Len(all_objects)
            cursor == Min(n, SumFirst(ldraw_steps, i - 1))
            stop == IF i = Len(ldraw_steps) THEN n
                    ELSE Min(n, cursor + Len(ldraw_steps[i]))
        IN calls[i].new_objects = [k \in 1..(stop - cursor) |-> all_objects[cursor + k]]

RECURSIVE ConcatNew(_, _)
ConcatNew(cs, k) == IF k = 0 THEN <<>> ELSE ConcatNew(cs, k - 1) \o cs[k].new_objects

\* C6: at every step the shown set is the concatenation of the new-object
\* sets so far (so it extends the previous one by consecutive, disjoint
\* slices of the object list), and after the last step it holds all N objects.
C6_CumulativeIsUnionOfNew ==
  /\ \A i \in 1..Len(calls) :
        /\ calls[i].visible = ConcatNew(calls, i)
        /\ calls[i].visible = SubSeq(all_objects, 1, Len(calls[i].visible))
  /\ (pc = "gen_write") =>
        /\ calls # <<>>
        /\ Len(calls[Len(calls)].visible) = Len(all_objects)

C8_SameOutputSet ==
  run = 2 => {e.path : e \in exported} \subseteq {d.path : d \in prev_exported}

\* C8 amended: every file of a later run is written to a path that held no
\* file when the run began; an object exported in both runs lands in the
\* same bucket under the same sanitized name with a larger numeric suffix.
C8_RerunFreshPaths ==
  run >= 2 =>
     \A e \in exported :
        /\ e.path \notin pre_files
        /\ \A d \in prev_exported :
             d.obj = e.obj => /\ d.path[1] = e.path[1]
                              /\ d.base = e.base
                              /\ e.suffix > d.suffix

\* the second run has exported an object the first run exported too
C8_Witness ==
  /\ run = 2
  /\ pc = "done"
  /\ \E e \in exported : \E d \in prev_exported : d.obj = e.obj

SUPPORTED_EXTS == LDRAW_EXTS \cup {".obj"}

\* C9: the exit status is non-zero when the input path is missing or
\* invalid or the format is unsupported, and 0 only after a successful import.
C9_FatalExitStatus ==
  pc = "done" =>
     /\ (~input_file.given \/ ~file_exists
           \/ LowerExt(input_file) \notin SUPPORTED_EXTS) => exit_status # 0
     /\ exit_status = 0 => /\ input_file.given
                           /\ file_exists
                           /\ LowerExt(input_file) \in SUPPORTED_EXTS

\* C10: a run that ends with a fatal error has written nothing under the
\* output root.
C10_NothingWrittenBeforeFatal ==
  (pc = "done" /\ exit_status = 1) => created = {}

\* C11: once the manual phase has been entered, whatever raises inside it
\* (parsing, import, scene setup, a render, writing the document), control
\* reaches the import for export of line 462 with the process still running.
C11_ManualFailureAbsorbed ==
  (pc = "gen_start") ~> (pc = "import" /\ exit_status = -1)

\* step 1 was rendered, a later failure kept the document from being
\* written, and the export phase is about to start
C11_Witness ==
  /\ pc = "import"
  /\ exit_status = -1
  /\ instr_dirs
  /\ png_files = {1}
  /\ ~html_exists

\* C12: the pages of the written manual are numbered 1..P without a gap and
\* every caption reads "Step X of P" with X in 1..P, P being the number of
\* pages.
C12_PageNumbersCompress ==
  html_exists =>
     \A k \in 1..Len(html_pages) :
        /\ html_pages[k].step_num = k
        /\ html_pages[k].of = Len(html_pages)
        /\ html_pages[k].step_num \in 1..html_pages[k].of

\* C13: when the manual-phase import yields no mesh object, no step is
\* rendered and no manual document is written.
C13_NoObjectsNoManual ==
  (pc \in {"gen_render", "gen_write", "gen_return"} /\ all_objects = <<>>) =>
     /\ calls = <<>>
     /\ rendered_steps = <<>>
     /\ "manual" \notin created

\* ------------------------------------------- the bucket key of a material
NameChars == {"R", "_", "s", ".", "1", ":"}

MaterialNames == SeqsUpTo(NameChars, MaxNameLen)

\* the export of a model that holds one mesh object, for every material name
\* of up to MaxNameLen characters and for an object without a material
InitNormalize ==
  /\ pc = "setup"
  /\ FreshState
  /\ generate_instructions = FALSE
  /\ input_file = [given |-> TRUE, ext |-> ".ldr"]
  /\ file_exists = TRUE
  /\ lines = <<>>
  /\ \E m \in MaterialNames, hm \in BOOLEAN :
       /\ ~hm => m = <<>>
       /\ model_objs = <<[name |-> <<"C">>, has_material |-> hm,
                          material |-> m, vertices |-> 8]>>

NextNormalize ==
  \/ Setup
  \/ Import
  \/ ExportObject
  \/ Finish

SpecNormalize == InitNormalize /\ [][NextNormalize]_vars

IsDigitRun(s) == s # <<>> /\ \A i \in DOMAIN s : s[i] \in Digits

\* s ends with a dot followed by digits only
HasDuplicateIndex(s) ==
  \E p \in 1..(Len(s) - 1) : s[p] = "." /\ IsDigitRun(SubSeq(s, p + 1, Len(s)))

\* a name without reserved characters, variant suffix or duplicate index
PlainName(b) ==
  /\ \A i \in DOMAIN b : b[i] \notin ReservedChars
  /\ ~EndsWith(b, <<"_", "s">>)
  /\ ~HasDuplicateIndex(b)

\* m is b, b followed by _s, or b followed by .<digits>
IsVariantOf(m, b) ==
  \/ m = b
  \/ m = b \o <<"_", "s">>
  \/ /\ Len(m) >= Len(b) + 2
     /\ SubSeq(m, 1, Len(b)) = b
     /\ m[Len(b) + 1] = "."
     /\ IsDigitRun(SubSeq(m, Len(b) + 2, Len(m)))

Prefixes(m) == {SubSeq(m, 1, k) : k \in 0..Len(m)}

\* C14: the bucket of an exported object is `Uncolored` when it has no
\* material; otherwise the key holds no reserved character, and it is B
\* whenever the material name is a plain name B, B_s or B.<digits>.
C14_BucketKey ==
  \A e \in exported :
     LET obj == objects_to_process[e.obj]
         key == e.path[1]
     IN IF ~obj.has_material
        THEN key = <<"U", "n", "c", "o", "l", "o", "r", "e", "d">>
        ELSE /\ \A i \in DOMAIN key : key[i] \notin ReservedChars
             /\ Len(key) <= Len(obj.material)
             /\ \A b \in Prefixes(obj.material) :
                  (PlainName(b) /\ IsVariantOf(obj.material, b)) => key = b

\* an object with material R_s was exported into bucket R
C14_Witness ==
  \E e \in exported :
     /\ objects_to_process[e.obj].has_material
     /\ objects_to_process[e.obj].material = <<"R", "_", "s">>
     /\ e.path[1] = <<"R">>

\* C16: the bucket key of an exported object is a fixed point of
\* normalize_material_name: normalizing it again changes nothing.
C16_NormalizeIdempotent ==
  \A e \in exported :
     objects_to_process[e.obj].has_material =>
        normalize_material_name(e.path[1]) = e.path[1]

\* C15: at every weld, modifier creation and export call the loop issued
\* for an object, that object alone is selected and it is the active object.
C15_SoleSelectionAtEachCall ==
  \A c \in op_log : c.selected = {c.obj} /\ c.active = c.obj

\* the export call of the second object was issued with that object alone
\* selected, after the iteration before it had raised in edit mode
C15_Witness ==
  \E c \in op_log :
     /\ c.op = "export"
     /\ c.obj = 2
     /\ c.mode_at_entry = "EDIT"
     /\ 1 \in failed
     /\ c.selected = {2}

====
